---------------------------- MODULE Spec2Model ----------------------------
(***************************************************************************)
(* PDPA Legal Advisor (src/pdpa_legal_advisor.py): the section store       *)
(* loaded by PDPALegalAdvisor.__init__, the scenario gatekeeper            *)
(* is_legal_scenario, the relevance selector search_relevant_sections with *)
(* its fixed fallback set, and the opinion generator                       *)
(* generate_legal_advice with its reply sanitisation and validation.       *)
(* The Flask handler (src/web_interface.py) with its two globals and its   *)
(* routes /analyze, /health and /reinit has a specification of its own.    *)
(*                                                                         *)
(* Strings are sequences of atoms.  Scenario strings, identifiers and the  *)
(* gatekeeper's term lists are sequences of single characters, so that     *)
(* lower(), the `in` substring test and the pattern ^\d+$ are computed.    *)
(* Reply strings are sequences of single characters too, so that the       *)
(* \bNaN\b scrub, str.replace and strip() are computed.  Fixed messages of  *)
(* the program are one atom.                                               *)
(***************************************************************************)
EXTENDS Integers, Sequences, FiniteSets, TLC

VARIABLES
  pc,                 \* where the advisor object / the current call stands
  corpus,             \* the CSV file given to __init__ (input)
  has_key,            \* whether an API key is passed or set in the environment
  df,                 \* self.df, the section store
  init_error,         \* the exception __init__ raised, "none" if it returned
  scenario,           \* the argument of the current call
  gate,               \* (is_legal, reason) of the current call
  model_i,            \* position of the running `for model in models_to_try`
  sel_log,            \* chat.completions.create calls of search_relevant_sections
  op_log,             \* chat.completions.create calls of generate_legal_advice
  sel_reply,          \* the reply search_relevant_sections received, as lines 122-129 read it
  relevant_sections,  \* what search_relevant_sections returns; then the local
                      \* relevant_sections of generate_legal_advice
  op_reply,           \* the reply the opinion phase received, as lines 302-339 read it
  result,             \* the LegalAdvice returned by the current call
  raised,             \* the exception the current call let escape, "none" if none
  caught,             \* str(e) of the exception caught at line 393, NoError if none
  output,             \* the text format_advice returned for result, NoOutput before
  advisor,            \* the global `advisor` of src/web_interface.py
  advisor_ready,      \* the global `advisor_ready` of src/web_interface.py
  startup,            \* where the init_advisor() call of line 28 stands
  requests            \* the requests being served by the web handler

vars == << pc, corpus, has_key, df, init_error, scenario, gate, model_i,
           sel_log, op_log, sel_reply, relevant_sections, op_reply, result,
           raised, caught, output, advisor, advisor_ready, startup, requests >>

\* the state of the web handler
web == << advisor, advisor_ready, startup, requests >>

------------------------------------------------------------------------------
(* Bounds of the model *)

\* rows of an input corpus
MaxRows == 4

------------------------------------------------------------------------------
(* Generic helpers on sequences *)

\* the k-th smallest member of the set of positions I
Nth(I, k) == CHOOSE i \in I : Cardinality({ j \in I : j < i }) = k - 1

\* the elements of s at the positions I, in order (a filter keeps an order)
Pick(s, I) == [ k \in 1..Cardinality(I) |-> s[Nth(I, k)] ]

\* Python's `sub in s` on strings
IsSubstring(sub, s) ==
  \E k \in 0..(Len(s) - Len(sub)) :
     \A j \in 1..Len(sub) : s[k + j] = sub[j]

Range(s) == { s[i] : i \in 1..Len(s) }

------------------------------------------------------------------------------
(* The corpus and the section store *)

Columns == { "section_number", "section_title", "text" }

Digits == { "0", "1", "2", "3", "4", "5", "6", "7", "8", "9" }

\* raw section_number cells of the CSV: "11", "15", "30", "26A" and the empty cell
S11  == << "1", "1" >>
S15  == << "1", "5" >>
S30  == << "3", "0" >>
S26A == << "2", "6", "A" >>
EmptyCell == << >>
IdCells == { S11, S15, S30, S26A, EmptyCell }

\* the character budget of a section excerpt
ExcerptLimit == 1000

\* A text cell is a run-length string: ch repeated n times, then more runs.
\* na marks the missing cell, which pandas reads as the float NaN.
TextRun(ch, n) == [ ch |-> ch, n |-> n ]
TextCell(runs) == [ na |-> FALSE, runs |-> runs ]
NaNCell == [ na |-> TRUE, runs |-> << >> ]

\* the title and the text of the row at position i of the file
TitleOfRow(i) == << "title", i >>
TextOfRow(i) ==
  CASE i % 4 = 1 -> TextCell(<< TextRun("a", 40) >>)
    [] i % 4 = 2 -> TextCell(<< TextRun("b", ExcerptLimit) >>)
    [] i % 4 = 3 -> TextCell(<< TextRun("c", ExcerptLimit), TextRun("d", 1) >>)
    [] OTHER     -> NaNCell

CellSeqs == UNION { [ 1..n -> IdCells ] : n \in 0..MaxRows }

\* every CSV input: unreadable files, and tables with any subset of the columns
Corpora ==
  { [ parsable |-> FALSE, cols |-> {}, cells |-> << >> ] } \cup
  { [ parsable |-> TRUE, cols |-> cs, cells |-> ids ] :
      cs \in SUBSET Columns, ids \in CellSeqs }

\* the regular expression ^\d+$ of str.match
MatchesDigits(s) == Len(s) > 0 /\ \A i \in 1..Len(s) : s[i] \in Digits

\* the dtype pd.read_csv infers for the section_number column
InferDtype(cells) ==
  LET filled == { i \in 1..Len(cells) : cells[i] # EmptyCell } IN
  IF filled = {} THEN "float64"
  ELSE IF \A i \in filled : MatchesDigits(cells[i])
       THEN IF filled = 1..Len(cells) THEN "int64" ELSE "float64"
       ELSE "object"

\* Series.astype(str) on one value of the column
AsTypeStr(dtype, cell) ==
  IF dtype = "float64" THEN cell \o << ".", "0" >> ELSE cell

\* pd.read_csv: the table, or the failure to parse
read_csv(c) ==
  IF ~ c.parsable THEN [ ok |-> FALSE, cols |-> {}, dtype |-> "object", rows |-> << >> ]
  ELSE [ ok    |-> TRUE,
         cols  |-> c.cols,
         dtype |-> InferDtype(c.cells),
         rows  |-> [ i \in 1..Len(c.cells) |->
                       [ na             |-> c.cells[i] = EmptyCell,
                         section_number |-> c.cells[i],
                         section_title  |-> TitleOfRow(i),
                         text           |-> TextOfRow(i) ] ] ]

\* a row of self.df
StoreRow(dtype, r) ==
  [ section_number |-> AsTypeStr(dtype, r.section_number),
    section_title  |-> r.section_title,
    text           |-> r.text ]

NoStore == [ cols |-> {}, rows |-> << >> ]

\* _load_pdpa_data: read, dropna on section_number, astype(str), keep ^\d+$;
\* any exception on the way becomes "Error loading PDPA data"
_load_pdpa_data(c) ==
  LET t == read_csv(c) IN
  IF ~ t.ok \/ "section_number" \notin t.cols THEN [ ok |-> FALSE, df |-> NoStore ]
  ELSE LET kept    == Pick(t.rows, { i \in 1..Len(t.rows) : ~ t.rows[i].na })
           strs    == [ i \in 1..Len(kept) |-> StoreRow(t.dtype, kept[i]) ]
           matched == Pick(strs, { i \in 1..Len(strs) :
                                    MatchesDigits(strs[i].section_number) })
       IN [ ok |-> TRUE, df |-> [ cols |-> t.cols, rows |-> matched ] ]

\* _setup_openai_client: a key from the argument or the environment, or ValueError
_setup_openai_client(key) == key

------------------------------------------------------------------------------
(* Section excerpts and hydration *)

RECURSIVE RunsLen(_)
RunsLen(runs) ==
  IF runs = << >> THEN 0 ELSE Head(runs).n + RunsLen(Tail(runs))

\* the slice [:k] of a run-length string
RECURSIVE TakeRuns(_, _)
TakeRuns(runs, k) ==
  IF k = 0 \/ runs = << >> THEN << >>
  ELSE IF Head(runs).n <= k
       THEN << Head(runs) >> \o TakeRuns(Tail(runs), k - Head(runs).n)
       ELSE << TextRun(Head(runs).ch, k) >>

\* len(str(section['text'])); str(nan) is 'nan'
LenStrText(cell) == IF cell.na THEN 3 ELSE RunsLen(cell.runs)

\* the mutant of Excerpt that cuts a text of exactly the budget too
ExcerptAtLimit(cell) ==
  IF LenStrText(cell) >= ExcerptLimit
  THEN TextCell(TakeRuns(cell.runs, ExcerptLimit) \o << TextRun(".", 3) >>)
  ELSE cell

\* section['text'][:1000] + "..." if len(str(section['text'])) > 1000
\* else section['text']
Excerpt(cell) ==
  IF LenStrText(cell) > ExcerptLimit
  THEN TextCell(TakeRuns(cell.runs, ExcerptLimit) \o << TextRun(".", 3) >>)
  ELSE cell

\* an identifier a reply names: a JSON string, or a JSON number
StrKey(chars) == [ t |-> "str", v |-> chars ]
IntKey(chars) == [ t |-> "int", v |-> chars ]

\* self.df[self.df['section_number'] == section_num]: the positions of the
\* matching rows; the column holds strings, which no number equals
MatchingRows(store, key) ==
  { i \in 1..Len(store.rows) :
      key.t = "str" /\ store.rows[i].section_number = key.v }

\* the dictionary built from section_data.iloc[0]
SectionDict(store, key) ==
  LET section == store.rows[Nth(MatchingRows(store, key), 1)] IN
  [ section_number |-> section.section_number,
    title          |-> section.section_title,
    text           |-> Excerpt(section.text) ]

\* the hydration loop over keys: the dictionaries of the identifiers found, in
\* the order of keys; KeyError (ok = FALSE) at the first identifier found when
\* the store lacks the section_title or the text column
Hydrate(store, keys) ==
  LET found == { i \in 1..Len(keys) : MatchingRows(store, keys[i]) # {} }
      hit   == Pick(keys, found)
  IN IF found # {} /\ ~ ({ "section_title", "text" } \subseteq store.cols)
     THEN [ ok |-> FALSE, sections |-> << >> ]
     ELSE [ ok |-> TRUE,
            sections |-> [ k \in 1..Len(hit) |-> SectionDict(store, hit[k]) ] ]

common_sections ==
  << << "1", "1" >>, << "1", "2" >>, << "1", "3" >>, << "1", "4" >>,
     << "1", "5" >>, << "1", "8" >>, << "1", "9" >>, << "2", "0" >>,
     << "2", "1" >>, << "2", "2" >> >>

\* _get_fallback_sections
_get_fallback_sections(store) ==
  Hydrate(store, [ i \in 1..Len(common_sections) |-> StrKey(common_sections[i]) ])

------------------------------------------------------------------------------
(* The hosted model and the candidate loop *)

models_to_try == << "gpt-4o-mini", "gpt-3.5-turbo", "gpt-4" >>

\* str(e) of the exceptions chat.completions.create raises
ErrModelNotFound == << "Error code: 404 - ", "model_not_found" >>
ErrDoesNotExist  == << "The model ", "does not exist", " or you do not have access to it." >>
ErrRateLimit     == << "Error code: 429 - ", "rate_limit_exceeded" >>
ErrConnection    == << "Connection error." >>
ModelErrors == { ErrModelNotFound, ErrDoesNotExist, ErrRateLimit, ErrConnection }

ErrNoModels == << "No available models found" >>

\* "model_not_found" in str(e) or "does not exist" in str(e)
IsModelNotFound(msg) ==
  \/ IsSubstring(<< "model_not_found" >>, msg)
  \/ IsSubstring(<< "does not exist" >>, msg)

Response(reply) == [ kind |-> "response", msg |-> << >>, reply |-> reply ]
ModelError(msg, noreply) == [ kind |-> "error", msg |-> msg, reply |-> noreply ]

\* what the log records of a call
OutcomeKind(out) ==
  IF out.kind = "response" THEN "success"
  ELSE IF IsModelNotFound(out.msg) THEN "not_found" ELSE "other_error"

\* the mutant of ModelLoopStep that goes on to the next candidate after any error
ModelLoopStepContinuesOnAnyError(i, out) ==
  IF out.kind = "response" THEN "break"
  ELSE IF i < Len(models_to_try) THEN "continue" ELSE "exhausted"

\* one turn of `for model in models_to_try` with candidate i (the same loop
\* in search_relevant_sections and in generate_legal_advice): break on a
\* response, continue on a not-found error, re-raise any other error; after
\* the last candidate the loop ends with response None
ModelLoopStep(i, out) ==
  IF out.kind = "response" THEN "break"
  ELSE IF IsModelNotFound(out.msg)
       THEN IF i < Len(models_to_try) THEN "continue" ELSE "exhausted"
       ELSE "raise"

------------------------------------------------------------------------------
(* The relevance selector *)

top_k == 10

\* identifiers in a selection reply
MaxIds == 2

ReplyKeys == { StrKey(S11), StrKey(S15), StrKey(S30), StrKey(S26A), IntKey(S11) }
TextKeys == { StrKey(S11), StrKey(S15), StrKey(S30) }

\* the content of a selection reply, by how lines 122-129 read it: a JSON
\* array, bracketed text that is no JSON, free text with integer tokens, or
\* no content at all (message.content is None)
SelReply(kind, nums) == [ kind |-> kind, nums |-> nums ]
NoSelReply == SelReply("none", << >>)

\* an array of more than top_k identifiers: "15", "30" up to top_k, then "11"
LongArray ==
  [ i \in 1..(top_k + 1) |->
      IF i = 1 THEN StrKey(S15) ELSE IF i <= top_k THEN StrKey(S30) ELSE StrKey(S11) ]

\* nums: the members of the array; for the texts that hold no JSON array, the
\* integer tokens re.findall(r'\b\d+\b') finds in them
SelReplies ==
  { SelReply("array", n) : n \in UNION { [ 1..k -> ReplyKeys ] : k \in 0..MaxIds } }
  \cup
  { SelReply(kind, n) : kind \in { "integers", "malformed_array" },
                        n \in UNION { [ 1..k -> TextKeys ] : k \in 0..MaxIds } }
  \cup { SelReply("array", LongArray), NoSelReply }

SelOutcomes ==
  { Response(r) : r \in SelReplies } \cup { ModelError(m, NoSelReply) : m \in ModelErrors }

Min(a, b) == IF a < b THEN a ELSE b

\* lines 121-143: the identifiers of the reply, then the hydration of the
\* first top_k of them; ok = FALSE when an exception leaves the block
SectionsOfReply(store, reply) ==
  IF reply.kind \in { "none", "malformed_array" }
  THEN [ ok |-> FALSE, sections |-> << >> ]
  ELSE Hydrate(store, SubSeq(reply.nums, 1, Min(top_k, Len(reply.nums))))

\* the end of search_relevant_sections once the loop is over: the sections of
\* the reply, or on any exception _get_fallback_sections(), whose own
\* exception nothing catches
search_after_loop(store, step, out) ==
  LET primary == IF step = "break" THEN SectionsOfReply(store, out.reply)
                 ELSE [ ok |-> FALSE, sections |-> << >> ]
  IN IF primary.ok THEN primary ELSE _get_fallback_sections(store)

------------------------------------------------------------------------------
(* Reply strings: characters, the word-boundary scrub, replace, strip *)

sNaN       == << "N", "a", "N" >>
sUndefined == << "u", "n", "d", "e", "f", "i", "n", "e", "d" >>
sNull      == << "n", "u", "l", "l" >>
sNA        == << "N", "/", "A" >>
sHigh      == << "h", "i", "g", "h" >>
sLow       == << "l", "o", "w" >>
sEllipsis  == << ".", ".", "." >>

LowerChars ==
  << "a", "b", "c", "d", "e", "f", "g", "h", "i", "j", "k", "l", "m",
     "n", "o", "p", "q", "r", "s", "t", "u", "v", "w", "x", "y", "z" >>
UpperChars ==
  << "A", "B", "C", "D", "E", "F", "G", "H", "I", "J", "K", "L", "M",
     "N", "O", "P", "Q", "R", "S", "T", "U", "V", "W", "X", "Y", "Z" >>

\* str.lower, one character at a time
lower(s) ==
  [ i \in 1..Len(s) |->
      IF \E k \in 1..26 : UpperChars[k] = s[i]
      THEN LowerChars[CHOOSE k \in 1..26 : UpperChars[k] = s[i]]
      ELSE s[i] ]

\* \w of the regular expressions
IsWordChar(c) == c \in Range(LowerChars) \cup Range(UpperChars) \cup Digits \cup { "_" }

\* the blank is the only whitespace of the strings modelled
IsSpace(c) == c = " "

MatchAt(s, i, pat) ==
  /\ i + Len(pat) - 1 <= Len(s)
  /\ \A j \in 1..Len(pat) : s[i + j - 1] = pat[j]

\* pat at position i between two \b (pat begins and ends with a word character)
WordMatchAt(s, i, pat) ==
  /\ MatchAt(s, i, pat)
  /\ i = 1 \/ ~ IsWordChar(s[i - 1])
  /\ i + Len(pat) > Len(s) \/ ~ IsWordChar(s[i + Len(pat)])

\* the starts of the matches a left-to-right scan takes among the match
\* positions M: the leftmost one, then the leftmost one past its end, ...
RECURSIVE ScanMatches(_, _, _)
ScanMatches(M, from, n) ==
  LET rest == { i \in M : i >= from } IN
  IF rest = {} THEN {}
  ELSE { Nth(rest, 1) } \cup ScanMatches(M, Nth(rest, 1) + n, n)

\* s from position `from` on, with the n characters at each start replaced by rep
RECURSIVE Splice(_, _, _, _, _)
Splice(s, from, starts, n, rep) ==
  IF starts = {} THEN SubSeq(s, from, Len(s))
  ELSE LET m == Nth(starts, 1) IN
       SubSeq(s, from, m - 1) \o rep \o Splice(s, m + n, starts \ { m }, n, rep)

\* re.sub(r'\bpat\b', rep, s)
ReSubWord(s, pat, rep) ==
  Splice(s, 1, ScanMatches({ i \in 1..Len(s) : WordMatchAt(s, i, pat) }, 1, Len(pat)),
         Len(pat), rep)

\* s.replace(pat, rep)
Replace(s, pat, rep) ==
  Splice(s, 1, ScanMatches({ i \in 1..Len(s) : MatchAt(s, i, pat) }, 1, Len(pat)),
         Len(pat), rep)

\* s.replace('NaN', 'N/A').replace('undefined', 'N/A')
ReplaceSentinels(s) == Replace(Replace(s, sNaN, sNA), sUndefined, sNA)

\* s.lstrip() and s.rstrip()
RECURSIVE lstrip(_)
lstrip(s) == IF s # << >> /\ IsSpace(Head(s)) THEN lstrip(Tail(s)) ELSE s

RECURSIVE rstrip(_)
rstrip(s) ==
  IF s # << >> /\ IsSpace(s[Len(s)]) THEN rstrip(SubSeq(s, 1, Len(s) - 1)) ELSE s

\* s.strip()
strip(s) == rstrip(lstrip(s))

------------------------------------------------------------------------------
(* JSON values of an opinion reply, the scrub and the decoding *)

\* Absent stands for a member the object does not have
Absent        == [ t |-> "absent", s |-> << >>, items |-> << >> ]
JNull         == [ t |-> "null", s |-> << >>, items |-> << >> ]
BareNaN       == [ t |-> "NaN", s |-> << >>, items |-> << >> ]
BareUndefined == [ t |-> "undefined", s |-> << >>, items |-> << >> ]
JStr(s)       == [ t |-> "str", s |-> s, items |-> << >> ]
JNum(digits)  == [ t |-> "num", s |-> digits, items |-> << >> ]
JList(items)  == [ t |-> "list", s |-> << >>, items |-> items ]

\* lines 319-321 on the text of one string value.  Its ends touch the quotes,
\* which are no word characters.  No string modelled holds a colon, so the
\* patterns of lines 324-325 find nothing more in it.
ScrubString(s) ==
  ReSubWord(ReSubWord(s, sNaN, sNull), sUndefined, sNull)

\* lines 319-328 on one value of the object: the scrub of its text, then
\* json.loads.  A bare NaN or undefined token becomes null.
ScrubAndLoadItem(v) ==
  CASE v.t \in { "NaN", "undefined" } -> JNull
    [] v.t = "str" -> JStr(ScrubString(v.s))
    [] OTHER -> v

ScrubAndLoadValue(v) ==
  IF v.t = "list"
  THEN JList([ i \in 1..Len(v.items) |-> ScrubAndLoadItem(v.items[i]) ])
  ELSE ScrubAndLoadItem(v)

\* json.loads on the scrubbed text takes every value modelled but the bare
\* token undefined, which is no JSON (it reads the bare token NaN as a float)
DecodesItem(v) == v.t # "undefined"

DecodesValue(v) ==
  IF v.t = "list" THEN \A i \in 1..Len(v.items) : DecodesItem(v.items[i])
  ELSE DecodesItem(v)

\* str() of a float nan
sNanFloat == << "n", "a", "n" >>

\* repr() of a list item
ReprItem(v) ==
  CASE v.t = "null" -> << "N", "o", "n", "e" >>
    [] v.t = "str"  -> << "'" >> \o v.s \o << "'" >>
    [] v.t = "NaN"  -> sNanFloat
    [] OTHER        -> v.s

RECURSIVE ReprItems(_)
ReprItems(items) ==
  IF items = << >> THEN << >>
  ELSE IF Len(items) = 1 THEN ReprItem(items[1])
       ELSE ReprItem(items[1]) \o << ",", " " >> \o ReprItems(Tail(items))

\* str(text) of a decoded value that is not None
PyStr(v) ==
  CASE v.t = "list" -> << "[" >> \o ReprItems(v.items) \o << "]" >>
    [] v.t = "NaN"  -> sNanFloat
    [] OTHER        -> v.s

------------------------------------------------------------------------------
(* clean_text, clean_list, validate_advice_data *)

InfoNotAvailable == << "Information not available" >>
ConsultCounsel == << "Consult with legal counsel" >>

\* text is None or text == 'NaN' or text == 'undefined' or str(text).strip() == ''
IsBlankValue(v) ==
  \/ v.t = "null"
  \/ v.t = "str" /\ v.s \in { sNaN, sUndefined }
  \/ strip(PyStr(v)) = << >>

clean_text(text) ==
  IF IsBlankValue(text) THEN InfoNotAvailable
  ELSE LET cleaned == strip(ReplaceSentinels(PyStr(text))) IN
       IF cleaned # << >> THEN cleaned ELSE InfoNotAvailable

\* the mutant of clean_list that keeps every item of a list
clean_list_keeping_every_item(lst) ==
  IF lst.t # "list" THEN << >>
  ELSE IF lst.items = << >> THEN << ConsultCounsel >>
       ELSE [ i \in 1..Len(lst.items) |-> clean_text(lst.items[i]) ]

\* clean_list: [] for a value that is no list, the default for a list that
\* keeps no item
clean_list(lst) ==
  IF lst.t # "list" THEN << >>
  ELSE LET kept == Pick(lst.items, { i \in 1..Len(lst.items) : ~ IsBlankValue(lst.items[i]) })
           cleaned_items == [ i \in 1..Len(kept) |-> clean_text(kept[i]) ]
       IN IF cleaned_items # << >> THEN cleaned_items ELSE << ConsultCounsel >>

TextKeysOfAdvice == { "issue", "rule", "analysis", "conclusion", "risk_level" }
AdviceKeys == TextKeysOfAdvice \cup { "recommendations" }

\* key in data
HasKey(data, k) == data[k].t # "absent"

\* validate_advice_data on a dict (what json.loads makes of an object, and what
\* _parse_fallback_response returns, is always one): the text fields as
\* strings, recommendations as a list of strings
validate_advice_data(data) ==
  [ text |-> [ k \in TextKeysOfAdvice |->
                 IF HasKey(data, k) THEN clean_text(data[k]) ELSE InfoNotAvailable ],
    recommendations |->
      IF HasKey(data, "recommendations")
      THEN clean_list(data["recommendations"])
      ELSE << ConsultCounsel >> ]

------------------------------------------------------------------------------
(* _parse_fallback_response, _create_error_advice, the short circuit *)

AnalysisLimit == 500

RiskHigh    == << "H", "i", "g", "h" >>
RiskMedium  == << "M", "e", "d", "i", "u", "m" >>
RiskLow     == << "L", "o", "w" >>
RiskNA      == << "N", "/", "A" >>
RiskUnknown == << "U", "n", "k", "n", "o", "w", "n" >>

\* the mutant of _parse_fallback_response that looks for "low" before "high"
_parse_fallback_response_low_first(content) ==
  LET clean_content == ReplaceSentinels(content)
      analysis == IF Len(clean_content) > AnalysisLimit
                  THEN SubSeq(clean_content, 1, AnalysisLimit) \o sEllipsis
                  ELSE clean_content
      risk_level == IF IsSubstring(sLow, lower(clean_content)) THEN RiskLow
                    ELSE IF IsSubstring(sHigh, lower(clean_content)) THEN RiskHigh
                    ELSE RiskMedium
  IN [ issue      |-> JStr(<< "Legal issues identified from scenario" >>),
       rule       |-> JStr(<< "Relevant PDPA provisions apply" >>),
       analysis   |-> JStr(analysis),
       conclusion |-> JStr(<< "Further legal review recommended" >>),
       risk_level |-> JStr(risk_level),
       recommendations |-> JList(<< JStr(ConsultCounsel),
                                    JStr(<< "Review PDPA compliance" >>) >>) ]

\* _parse_fallback_response: the dict built from free text
_parse_fallback_response(content) ==
  LET clean_content == ReplaceSentinels(content)
      analysis == IF Len(clean_content) > AnalysisLimit
                  THEN SubSeq(clean_content, 1, AnalysisLimit) \o sEllipsis
                  ELSE clean_content
      risk_level == IF IsSubstring(sHigh, lower(clean_content)) THEN RiskHigh
                    ELSE IF IsSubstring(sLow, lower(clean_content)) THEN RiskLow
                    ELSE RiskMedium
  IN [ issue      |-> JStr(<< "Legal issues identified from scenario" >>),
       rule       |-> JStr(<< "Relevant PDPA provisions apply" >>),
       analysis   |-> JStr(analysis),
       conclusion |-> JStr(<< "Further legal review recommended" >>),
       risk_level |-> JStr(risk_level),
       recommendations |-> JList(<< JStr(ConsultCounsel),
                                    JStr(<< "Review PDPA compliance" >>) >>) ]

LegalAdvice(issue, rule, analysis, conclusion, sections, risk_level, recommendations) ==
  [ set               |-> TRUE,
    issue             |-> issue,
    rule              |-> rule,
    analysis          |-> analysis,
    conclusion        |-> conclusion,
    relevant_sections |-> sections,
    risk_level        |-> risk_level,
    recommendations   |-> recommendations ]

NoAdvice ==
  [ set |-> FALSE, issue |-> << >>, rule |-> << >>, analysis |-> << >>,
    conclusion |-> << >>, relevant_sections |-> << >>, risk_level |-> << >>,
    recommendations |-> << >> ]

ErrorRecommendations ==
  << << "Consult legal expert" >>, << "Review relevant PDPA sections" >> >>

\* the mutant of _create_error_advice that drops the sections
_create_error_advice_without_sections(sections, error) ==
  LegalAdvice(<< "Error in analysis" >>,
              << "PDPA provisions may apply" >>,
              << "Technical error occurred: " >> \o error,
              << "Manual legal review required" >>,
              << >>,
              RiskUnknown,
              ErrorRecommendations)

\* _create_error_advice
_create_error_advice(sections, error) ==
  LegalAdvice(<< "Error in analysis" >>,
              << "PDPA provisions may apply" >>,
              << "Technical error occurred: " >> \o error,
              << "Manual legal review required" >>,
              sections,
              RiskUnknown,
              ErrorRecommendations)

\* the mutant of RejectedAdvice that attaches the store's fallback sections
RejectedAdviceWithStoreSections(reason) ==
  [ set               |-> TRUE,
    issue             |-> << "Input validation failed" >>,
    rule              |-> << "The PDPA Legal Advisor is designed for data protection and privacy law scenarios only" >>,
    analysis          |-> reason,
    conclusion        |-> << "Please provide a scenario involving personal data, privacy, or legal compliance issues." >>,
    relevant_sections |-> _get_fallback_sections(df).sections,
    risk_level        |-> RiskNA,
    recommendations   |-> << << "Provide a legal scenario involving data protection" >>,
                             << "Include details about personal data handling" >>,
                             << "Describe privacy or compliance concerns" >> >> ]

\* the LegalAdvice of lines 224-232, returned when the gatekeeper rejects
RejectedAdvice(reason) ==
  LegalAdvice(<< "Input validation failed" >>,
              << "The PDPA Legal Advisor is designed for data protection and privacy law scenarios only" >>,
              reason,
              << "Please provide a scenario involving personal data, privacy, or legal compliance issues." >>,
              << >>,
              RiskNA,
              << << "Provide a legal scenario involving data protection" >>,
                 << "Include details about personal data handling" >>,
                 << "Describe privacy or compliance concerns" >> >>)

------------------------------------------------------------------------------
(* Opinion replies and the opinion built from one *)

\* the content of an opinion reply, by how lines 302-339 read it: a text that
\* is a JSON object, which both patterns find whole (obj: its members as
\* written, txt: its text), a text in which no pattern finds an object (txt),
\* or no content at all (message.content is None)
EmptyObject      == [ k \in AdviceKeys |-> Absent ]

\* the text of a value as the reply writes it
RenderItem(v) ==
  CASE v.t = "str"       -> << "\"" >> \o v.s \o << "\"" >>
    [] v.t = "null"      -> sNull
    [] v.t = "NaN"       -> sNaN
    [] v.t = "undefined" -> sUndefined
    [] OTHER             -> v.s

RECURSIVE RenderItems(_)
RenderItems(items) ==
  IF items = << >> THEN << >>
  ELSE IF Len(items) = 1 THEN RenderItem(items[1])
       ELSE RenderItem(items[1]) \o << ",", " " >> \o RenderItems(Tail(items))

RenderValue(v) ==
  IF v.t = "list" THEN << "[" >> \o RenderItems(v.items) \o << "]" >>
  ELSE RenderItem(v)

\* the members in the order the prompt lists them
KeyOrder ==
  << "issue", "rule", "analysis", "conclusion", "risk_level", "recommendations" >>

RECURSIVE RenderMembers(_, _)
RenderMembers(obj, keys) ==
  IF keys = << >> THEN << >>
  ELSE LET member == << "\"", Head(keys), "\"", ":", " " >> \o RenderValue(obj[Head(keys)])
       IN IF Len(keys) = 1 THEN member
          ELSE member \o << ",", " " >> \o RenderMembers(obj, Tail(keys))

\* the JSON text of an object reply
ObjectText(obj) ==
  << "{" >>
  \o RenderMembers(obj, Pick(KeyOrder, { i \in 1..Len(KeyOrder) : HasKey(obj, KeyOrder[i]) }))
  \o << "}" >>

ObjectReply(obj) == [ kind |-> "object", obj |-> obj, txt |-> ObjectText(obj) ]
TextReply(txt)   == [ kind |-> "text", obj |-> EmptyObject, txt |-> txt ]
NoOpReply        == [ kind |-> "none", obj |-> EmptyObject, txt |-> << >> ]

ErrNoneStrip == << "'NoneType' object has no attribute 'strip'" >>

sOk       == << "o", "k" >>
sCritical == << "C", "r", "i", "t", "i", "c", "a", "l" >>

\* the values a member of the object takes
StringValues ==
  { << >>, << " " >>, sNaN, sUndefined, << "x" >> \o sNaN,
    sNaN \o << " " >> \o sOk, << " " >> \o sOk \o << " " >>,
    sOk, sCritical, RiskLow }
ListValues ==
  { << >>, << JStr(<< >>) >>, << JStr(sNaN), JNull >>,
    << JStr(sOk), JStr(<< >>), JStr(sCritical) >>, << JNum(<< "5" >>) >> }
RawValues ==
  { BareNaN, BareUndefined, JNull, JNum(<< "5" >>) }
  \cup { JStr(x) : x \in StringValues } \cup { JList(l) : l \in ListValues }

\* the object the prompt asks for
GoodObject ==
  [ k \in AdviceKeys |->
      CASE k = "risk_level"      -> JStr(RiskHigh)
        [] k = "recommendations" -> JList(<< JStr(sOk), JStr(sCritical) >>)
        [] OTHER                 -> JStr(sOk) ]

\* the free texts of replies without a JSON object
FreeTexts ==
  { << >>, sOk, << " " >> \o sOk \o << " " >> \o RiskHigh,
    sLow \o << " " >> \o sNaN, sLow \o << " ", "H", "I", "G", "H" >>,
    [ i \in 1..(AnalysisLimit + 1) |-> "z" ] }

\* the replies: the good object with one member changed or dropped, the
\* object without members, the free texts, and the reply without content
OpReplies ==
  { ObjectReply([ GoodObject EXCEPT ![k] = v ]) :
      k \in AdviceKeys, v \in RawValues \cup { Absent } }
  \cup { ObjectReply(GoodObject), ObjectReply(EmptyObject), NoOpReply }
  \cup { TextReply(x) : x \in FreeTexts }

OpOutcomes ==
  { Response(r) : r \in OpReplies } \cup { ModelError(m, NoOpReply) : m \in ModelErrors }

\* lines 302-391 on a response: the advice, or the message of the exception
AdviceOfReply(reply, sections) ==
  IF reply.kind = "none" THEN _create_error_advice(sections, ErrNoneStrip)
  ELSE LET content == strip(reply.txt)
           loaded == [ k \in AdviceKeys |-> ScrubAndLoadValue(reply.obj[k]) ]
           advice_data ==
             IF reply.kind = "object" /\ \A k \in AdviceKeys : DecodesValue(loaded[k])
             THEN loaded
             ELSE _parse_fallback_response(content)
           v == validate_advice_data(advice_data)
       IN LegalAdvice(v.text["issue"], v.text["rule"], v.text["analysis"],
                      v.text["conclusion"], sections, v.text["risk_level"],
                      v.recommendations)

NoError == << >>

\* str(e) of the exception that leaves the try block of generate_legal_advice
\* once the loop is over: none on a reply with content, the AttributeError of
\* line 302 on a reply without, the exception of line 300 after the last
\* candidate, the error re-raised at line 297
error_after_loop(step, out) ==
  CASE step = "break"     -> IF out.reply.kind = "none" THEN ErrNoneStrip ELSE NoError
    [] step = "exhausted" -> ErrNoModels
    [] OTHER              -> out.msg

\* the end of the try block of generate_legal_advice once the loop is over:
\* the advice of the reply, or the advice of the except branch
advice_after_loop(step, out, sections) ==
  IF error_after_loop(step, out) = NoError
  THEN AdviceOfReply(out.reply, sections)
  ELSE _create_error_advice(sections, error_after_loop(step, out))

------------------------------------------------------------------------------
(* The scenario gatekeeper *)

legal_keywords ==
  << <<"d","a","t","a">>,
     <<"p","e","r","s","o","n","a","l">>,
     <<"p","r","i","v","a","c","y">>,
     <<"c","o","n","s","e","n","t">>,
     <<"c","o","l","l","e","c","t","i","o","n">>,
     <<"d","i","s","c","l","o","s","u","r","e">>,
     <<"b","r","e","a","c","h">>,
     <<"a","c","c","e","s","s">>,
     <<"c","o","r","r","e","c","t","i","o","n">>,
     <<"r","e","t","e","n","t","i","o","n">>,
     <<"p","r","o","t","e","c","t","i","o","n">>,
     <<"p","u","r","p","o","s","e">>,
     <<"o","r","g","a","n","i","z","a","t","i","o","n">>,
     <<"i","n","d","i","v","i","d","u","a","l">>,
     <<"c","u","s","t","o","m","e","r">>,
     <<"c","l","i","e","n","t">>,
     <<"e","m","p","l","o","y","e","e">>,
     <<"u","s","e","r">>,
     <<"i","n","f","o","r","m","a","t","i","o","n">>,
     <<"r","e","c","o","r","d","s">>,
     <<"d","a","t","a","b","a","s","e">>,
     <<"p","r","o","c","e","s","s","i","n","g">>,
     <<"s","t","o","r","a","g","e">>,
     <<"t","r","a","n","s","f","e","r">>,
     <<"c","o","m","p","l","i","a","n","c","e">>,
     <<"p","o","l","i","c","y">>,
     <<"p","r","o","c","e","d","u","r","e">>,
     <<"n","o","t","i","f","i","c","a","t","i","o","n">>,
     <<"r","e","q","u","e","s","t">>,
     <<"r","i","g","h","t","s">>,
     <<"u","n","a","u","t","h","o","r","i","z","e","d">>,
     <<"s","e","c","u","r","i","t","y">>,
     <<"c","o","n","f","i","d","e","n","t","i","a","l">>,
     <<"s","e","n","s","i","t","i","v","e">>,
     <<"i","d","e","n","t","i","f","i","a","b","l","e">>,
     <<"p","d","p">>,
     <<"g","d","p","r">>,
     <<"r","e","g","u","l","a","t","i","o","n">>,
     <<"l","a","w">>,
     <<"l","e","g","a","l">>,
     <<"s","t","a","t","u","t","e">>,
     <<"a","c","t">>,
     <<"c","o","m","p","a","n","y">>,
     <<"b","u","s","i","n","e","s","s">>,
     <<"o","r","g","a","n","i","z","a","t","i","o","n">>,
     <<"e","n","t","i","t","y">>,
     <<"c","o","r","p","o","r","a","t","i","o","n">> >>

non_legal_indicators ==
  << <<"c","h","o","c","o","l","a","t","e">>,
     <<"l","a","b","u","b","u">>,
     <<"m","a","t","c","h","a">>,
     <<"f","o","o","d">>,
     <<"r","e","c","i","p","e">>,
     <<"c","o","o","k","i","n","g">>,
     <<"g","a","m","i","n","g">>,
     <<"g","a","m","e">>,
     <<"e","n","t","e","r","t","a","i","n","m","e","n","t">>,
     <<"m","u","s","i","c">>,
     <<"m","o","v","i","e">>,
     <<"b","o","o","k">>,
     <<"w","e","a","t","h","e","r">>,
     <<"s","p","o","r","t","s">>,
     <<"t","r","a","v","e","l">>,
     <<"v","a","c","a","t","i","o","n">>,
     <<"h","o","b","b","y">>,
     <<"a","r","t">>,
     <<"r","a","n","d","o","m">>,
     <<"j","o","k","e">>,
     <<"m","e","m","e">>,
     <<"f","u","n","n","y">>,
     <<"t","e","s","t">>,
     <<"h","e","l","l","o">>,
     <<"h","i">> >>

ReasonNoLegalContent ==
  << "Scenario does not appear to contain legal or data protection related content. Please provide a scenario involving personal data, privacy, or legal compliance issues." >>
ReasonNonLegalContent ==
  << "Scenario appears to be non-legal content. Please provide a factual scenario involving data protection, privacy, or legal compliance issues." >>
ReasonLegal == << "Scenario appears to be legal-related." >>

\* sum(1 for keyword in legal_keywords if keyword in scenario_lower):
\* one per list position whose keyword occurs
keyword_count(scenario_lower) ==
  Cardinality({ i \in 1..Len(legal_keywords) :
                  IsSubstring(legal_keywords[i], scenario_lower) })

\* any(indicator in scenario_lower for indicator in non_legal_indicators)
has_non_legal_indicator(scenario_lower) ==
  \E i \in 1..Len(non_legal_indicators) :
     IsSubstring(non_legal_indicators[i], scenario_lower)

\* is_legal_scenario: the pair (is_legal, reason)
is_legal_scenario(s) ==
  LET scenario_lower == lower(s)
      count == keyword_count(scenario_lower)
  IN IF count < 2
     THEN [ is_legal |-> FALSE, reason |-> ReasonNoLegalContent ]
     ELSE IF has_non_legal_indicator(scenario_lower) /\ count < 3
          THEN [ is_legal |-> FALSE, reason |-> ReasonNonLegalContent ]
          ELSE [ is_legal |-> TRUE, reason |-> ReasonLegal ]

\* the words scenarios are made of
W_hello        == << "h", "e", "l", "l", "o" >>
W_love         == << "l", "o", "v", "e" >>
W_this         == << "t", "h", "i", "s" >>
W_chocolate    == << "c", "h", "o", "c", "o", "l", "a", "t", "e" >>
W_data         == << "d", "a", "t", "a" >>
W_database     == << "d", "a", "t", "a", "b", "a", "s", "e" >>
W_privacy      == << "p", "r", "i", "v", "a", "c", "y" >>
W_Company      == << "C", "o", "m", "p", "a", "n", "y" >>
W_organization == << "o", "r", "g", "a", "n", "i", "z", "a", "t", "i", "o", "n" >>
Words == { W_hello, W_love, W_this, W_chocolate, W_data, W_database,
           W_privacy, W_Company, W_organization }

\* words of a scenario
MaxWords == 3

\* the words ws joined by single blanks
RECURSIVE JoinWords(_)
JoinWords(ws) ==
  IF ws = << >> THEN << >>
  ELSE IF Len(ws) = 1 THEN ws[1]
       ELSE ws[1] \o << " " >> \o JoinWords(Tail(ws))

Scenarios ==
  { JoinWords(ws) : ws \in UNION { [ 1..n -> Words ] : n \in 0..MaxWords } }

------------------------------------------------------------------------------
(* The formatter *)

\* str.upper, one character at a time
upper(s) ==
  [ i \in 1..Len(s) |->
      IF \E k \in 1..26 : LowerChars[k] = s[i]
      THEN UpperChars[CHOOSE k \in 1..26 : LowerChars[k] = s[i]]
      ELSE s[i] ]

\* The text format_advice builds is a sequence of pieces, in the order they
\* are written: a label with the value printed after it, a section bullet
\* (number and title), or a numbered recommendation.
Piece(kind, label, n, body, title) ==
  [ kind |-> kind, label |-> label, n |-> n, body |-> body, title |-> title ]

LabelPiece(label, body) == Piece("label", label, 0, body, << >>)

\* f"\n• Section {section['section_number']}: {section['title']}"
SectionPiece(section) ==
  Piece("section", "Section", 0, section.section_number, section.title)

\* f"{i}. {rec}\n"
RecommendationPiece(i, rec) == Piece("recommendation", "", i, rec, << >>)

NoOutput == << >>

\* the mutant of format_advice that numbers every recommendation 1
format_advice_numbering_from_one_each(advice) ==
  << LabelPiece("PDPA LEGAL ADVICE REPORT", << >>),
     LabelPiece("ISSUE:", advice.issue),
     LabelPiece("RULE:", advice.rule),
     LabelPiece("ANALYSIS:", advice.analysis),
     LabelPiece("CONCLUSION:", advice.conclusion),
     LabelPiece("RISK LEVEL:", upper(advice.risk_level)),
     LabelPiece("RELEVANT SECTIONS:", << >>) >>
  \o [ i \in 1..Len(advice.relevant_sections) |->
         SectionPiece(advice.relevant_sections[i]) ]
  \o IF advice.recommendations # << >>
     THEN << LabelPiece("RECOMMENDATIONS:", << >>) >>
          \o [ i \in 1..Len(advice.recommendations) |->
                 RecommendationPiece(1, advice.recommendations[i]) ]
     ELSE << >>

\* format_advice: the banner and the six labels of the f-string, a bullet for
\* each relevant section, and, when there are recommendations, their label
\* and the numbered list
format_advice(advice) ==
  << LabelPiece("PDPA LEGAL ADVICE REPORT", << >>),
     LabelPiece("ISSUE:", advice.issue),
     LabelPiece("RULE:", advice.rule),
     LabelPiece("ANALYSIS:", advice.analysis),
     LabelPiece("CONCLUSION:", advice.conclusion),
     LabelPiece("RISK LEVEL:", upper(advice.risk_level)),
     LabelPiece("RELEVANT SECTIONS:", << >>) >>
  \o [ i \in 1..Len(advice.relevant_sections) |->
         SectionPiece(advice.relevant_sections[i]) ]
  \o IF advice.recommendations # << >>
     THEN << LabelPiece("RECOMMENDATIONS:", << >>) >>
          \o [ i \in 1..Len(advice.recommendations) |->
                 RecommendationPiece(i, advice.recommendations[i]) ]
     ELSE << >>

------------------------------------------------------------------------------
(* The web handler (src/web_interface.py): its globals and its requests *)

\* requests served at the same time
MaxRequests == 2
Requests == 1..MaxRequests

\* `advisor = None` of line 13, and an instance with its store
NoAdvisor == [ set |-> FALSE, df |-> NoStore ]
Instance(store) == [ set |-> TRUE, df |-> store ]

\* a request slot nobody uses; observed says whether the request has read
\* advisor_ready yet, seen_ready is the value of its first read, body_ready
\* the value in the body of its response, called whether it called
\* generate_legal_advice and on what
IdleRequest ==
  [ route |-> "none", pc |-> "idle", observed |-> FALSE, seen_ready |-> FALSE,
    body_ready |-> FALSE, status |-> 0, called |-> "no" ]

\* the first line each route executes
FirstLine(route) ==
  CASE route = "analyze" -> "check_ready"
    [] route = "health"  -> "read_status"
    [] route = "reinit"  -> "construct"

\* lines 13-14, before init_advisor() of line 28 has run
WebIdle ==
  /\ advisor = NoAdvisor
  /\ advisor_ready = FALSE
  /\ startup = "construct"
  /\ requests = [ i \in Requests |-> IdleRequest ]

------------------------------------------------------------------------------
(* State: construction *)

NoGate == [ is_legal |-> FALSE, reason |-> << >> ]

\* before __init__ runs on corpus c
Fresh(c, key) ==
  /\ pc = "new"
  /\ corpus = c
  /\ has_key = key
  /\ df = NoStore
  /\ init_error = "none"
  /\ scenario = << >>
  /\ gate = NoGate
  /\ model_i = 0
  /\ sel_log = << >>
  /\ op_log = << >>
  /\ sel_reply = NoSelReply
  /\ relevant_sections = << >>
  /\ op_reply = NoOpReply
  /\ result = NoAdvice
  /\ raised = "none"
  /\ caught = NoError
  /\ output = NoOutput
  /\ WebIdle

\* PDPALegalAdvisor.__init__: load the store, then set up the client
Construct ==
  /\ pc = "new"
  /\ LET l == _load_pdpa_data(corpus) IN
       IF ~ l.ok
       THEN /\ pc' = "init_failed"
            /\ init_error' = "Error loading PDPA data"
            /\ df' = df
       ELSE IF ~ _setup_openai_client(has_key)
            THEN /\ pc' = "init_failed"
                 /\ init_error' = "ValueError"
                 /\ df' = l.df
            ELSE /\ pc' = "ready"
                 /\ init_error' = "none"
                 /\ df' = l.df
  /\ UNCHANGED << web, corpus, has_key, scenario, gate, model_i, sel_log, op_log,
                  sel_reply, relevant_sections, op_reply, result, raised, caught, output >>

\* the scenarios of the full calls: no keyword, two keywords with an
\* unrelated term, three keywords
CallScenarios ==
  { W_hello,
    JoinWords(<< W_chocolate, W_data, W_privacy >>),
    JoinWords(<< W_Company, W_data, W_privacy >>) }

\* the mutant of GateRejects that lets every scenario through
GateNeverRejects(g) == FALSE

\* `if not is_legal` of line 223
GateRejects(g) == ~ g.is_legal

\* generate_legal_advice, lines 221-235: the gatekeeper, then the short
\* circuit or the entry into search_relevant_sections
Generate ==
  /\ pc = "ready"
  /\ \E s \in CallScenarios :
       LET g == is_legal_scenario(s) IN
       /\ scenario' = s
       /\ gate' = g
       /\ IF GateRejects(g)
          THEN /\ result' = RejectedAdvice(g.reason)
               /\ pc' = "done"
               /\ model_i' = 0
          ELSE /\ result' = NoAdvice
               /\ pc' = "select"
               /\ model_i' = 1
  /\ sel_log' = << >>
  /\ op_log' = << >>
  /\ sel_reply' = NoSelReply
  /\ relevant_sections' = << >>
  /\ op_reply' = NoOpReply
  /\ raised' = "none"
  /\ caught' = NoError
  /\ UNCHANGED << web, corpus, has_key, df, init_error, output >>

\* the mutant of OpinionFirstCandidate that goes on from the candidate the
\* selection ended with
CandidateAfterSelection == Len(sel_log)

\* the candidate the loop of line 283 starts with: `for model in models_to_try`
\* begins at the head of the list
OpinionFirstCandidate == 1

\* search_relevant_sections, one call of the hosted model and what follows it:
\* the next candidate, or the sections it is about to return (of the reply,
\* or the fallback set), or the KeyError of _get_fallback_sections, which
\* nothing catches
SelectCall ==
  /\ pc = "select"
  /\ \E out \in SelOutcomes :
       LET step == ModelLoopStep(model_i, out) IN
       /\ sel_log' = Append(sel_log, [ model |-> models_to_try[model_i],
                                       outcome |-> OutcomeKind(out) ])
       /\ IF step = "continue"
          THEN /\ model_i' = model_i + 1
               /\ UNCHANGED << pc, sel_reply, relevant_sections, raised >>
          ELSE LET r == search_after_loop(df, step, out) IN
               /\ sel_reply' = out.reply
               /\ model_i' = 0
               /\ IF r.ok
                  THEN /\ relevant_sections' = r.sections
                       /\ pc' = "searched"
                       /\ raised' = raised
                  ELSE /\ relevant_sections' = relevant_sections
                       /\ pc' = "raised"
                       /\ raised' = "KeyError"
  /\ UNCHANGED << web, corpus, has_key, df, init_error, scenario, gate, op_log,
                  op_reply, result, caught, output >>

\* line 235: search_relevant_sections returns into generate_legal_advice, whose
\* loop of line 283 starts
SearchReturns ==
  /\ pc = "searched"
  /\ pc' = "opinion"
  /\ model_i' = OpinionFirstCandidate
  /\ sel_reply' = NoSelReply
  /\ UNCHANGED << web, corpus, has_key, df, init_error, scenario, gate, sel_log,
                  op_log, relevant_sections, op_reply, result, raised, caught,
                  output >>

\* generate_legal_advice, lines 278-395, one call of the hosted model and what
\* follows it: the next candidate, or the returned LegalAdvice
OpinionCall ==
  /\ pc = "opinion"
  /\ \E out \in OpOutcomes :
       LET step == ModelLoopStep(model_i, out) IN
       /\ op_log' = Append(op_log, [ model |-> models_to_try[model_i],
                                     outcome |-> OutcomeKind(out) ])
       /\ IF step = "continue"
          THEN /\ model_i' = model_i + 1
               /\ UNCHANGED << pc, op_reply, result, caught >>
          ELSE /\ result' = advice_after_loop(step, out, relevant_sections)
               /\ caught' = error_after_loop(step, out)
               /\ op_reply' = out.reply
               /\ pc' = "done"
               /\ model_i' = 0
  /\ UNCHANGED << web, corpus, has_key, df, init_error, scenario, gate, sel_log,
                  sel_reply, relevant_sections, raised, output >>

\* the caller takes the result (or the exception) of the call
Return ==
  /\ pc \in { "done", "raised" }
  /\ pc' = "ready"
  /\ scenario' = << >>
  /\ gate' = NoGate
  /\ model_i' = 0
  /\ sel_log' = << >>
  /\ op_log' = << >>
  /\ sel_reply' = NoSelReply
  /\ relevant_sections' = << >>
  /\ op_reply' = NoOpReply
  /\ result' = NoAdvice
  /\ raised' = "none"
  /\ caught' = NoError
  /\ UNCHANGED << web, corpus, has_key, df, init_error, output >>

\* a direct call of is_legal_scenario(scenario) on a constructed advisor
CallIsLegalScenario ==
  /\ pc = "ready"
  /\ gate = NoGate
  /\ gate' = is_legal_scenario(scenario)
  /\ UNCHANGED << web, pc, corpus, has_key, df, init_error, scenario, model_i,
                  sel_log, op_log, sel_reply, relevant_sections, op_reply, result,
                  raised, caught, output >>

------------------------------------------------------------------------------
(* Specification of the advisor: construction, then calls of               *)
(* generate_legal_advice, one after the other                              *)

\* the identifier columns of the corpora of the full calls: fallback
\* identifiers out of order beside another one; one identifier twice; no
\* fallback identifier; numbers beside an empty cell
CallCells ==
  { << S15, S11, S30 >>, << S11, S11 >>, << S30 >>, << S11, EmptyCell >> }

\* with all three columns, or without the section_title column; and the
\* files that do not load: the unreadable one, the one without columns
CallCorpora ==
  { c \in Corpora :
      \/ ~ c.parsable
      \/ c.cells \in CallCells /\ c.cols \in { Columns, Columns \ { "section_title" } }
      \/ c.cells = << >> /\ c.cols = {} }

Init == \E c \in CallCorpora, key \in BOOLEAN : Fresh(c, key)
Next ==
  Construct \/ Generate \/ SelectCall \/ SearchReturns \/ OpinionCall \/ Return
Spec == Init /\ [][Next]_vars

------------------------------------------------------------------------------
(* Specification of construction alone: every corpus, then __init__ *)

\* a key is at hand, so that the corpus alone decides the construction
InitLoad == \E c \in Corpora : Fresh(c, TRUE)
NextLoad == Construct
SpecLoad == InitLoad /\ [][NextLoad]_vars

(* Specification of the gatekeeper alone: a constructed advisor about to be *)
(* asked about a scenario, every scenario                                   *)

GateCorpus == [ parsable |-> TRUE, cols |-> Columns, cells |-> << S11, S15 >> ]
InitGate ==
  /\ pc = "ready"
  /\ corpus = GateCorpus
  /\ has_key = TRUE
  /\ df = _load_pdpa_data(GateCorpus).df
  /\ init_error = "none"
  /\ scenario \in Scenarios
  /\ gate = NoGate
  /\ model_i = 0
  /\ sel_log = << >>
  /\ op_log = << >>
  /\ sel_reply = NoSelReply
  /\ relevant_sections = << >>
  /\ op_reply = NoOpReply
  /\ result = NoAdvice
  /\ raised = "none"
  /\ caught = NoError
  /\ output = NoOutput
  /\ WebIdle
NextGate == CallIsLegalScenario
SpecGate == InitGate /\ [][NextGate]_vars

(* Specification of the formatter alone: a LegalAdvice at hand, then        *)
(* format_advice(advice)                                                    *)

\* a direct call of format_advice(result)
CallFormatAdvice ==
  /\ pc = "done"
  /\ result.set
  /\ output = NoOutput
  /\ output' = format_advice(result)
  /\ UNCHANGED << web, pc, corpus, has_key, df, init_error, scenario, gate, model_i,
                  sel_log, op_log, sel_reply, relevant_sections, op_reply, result,
                  raised, caught >>

\* the section lists of the advices formatted
FormatSections ==
  LET store == _load_pdpa_data(GateCorpus).df IN
  { Hydrate(store, keys).sections :
      keys \in { << >>, << StrKey(S11) >>, << StrKey(S15), StrKey(S11) >> } }

\* the advices formatted: the fields filled or empty, with and without
\* sections, with no, one, two and three recommendations
FormatAdvices ==
  { LegalAdvice(issue, sOk, analysis, sCritical, sections, risk_level, recs) :
      issue      \in { sOk, << >> },
      analysis   \in { sOk \o << " " >> \o sCritical, << >> },
      sections   \in FormatSections,
      risk_level \in { RiskHigh, RiskNA, sCritical, << >> },
      recs       \in { << >>, << sOk >>, << sCritical, sOk >>,
                       << sCritical, sOk, sOk >> } }

InitFormat ==
  /\ pc = "done"
  /\ corpus = GateCorpus
  /\ has_key = TRUE
  /\ df = _load_pdpa_data(GateCorpus).df
  /\ init_error = "none"
  /\ scenario = << >>
  /\ gate = NoGate
  /\ model_i = 0
  /\ sel_log = << >>
  /\ op_log = << >>
  /\ sel_reply = NoSelReply
  /\ relevant_sections = << >>
  /\ op_reply = NoOpReply
  /\ result \in FormatAdvices
  /\ raised = "none"
  /\ caught = NoError
  /\ output = NoOutput
  /\ WebIdle
NextFormat == CallFormatAdvice
SpecFormat == InitFormat /\ [][NextFormat]_vars

------------------------------------------------------------------------------
(* Specification of one advisor in use: construction, then calls of         *)
(* is_legal_scenario, _get_fallback_sections, generate_legal_advice (with   *)
(* search_relevant_sections inside it) and format_advice in any order       *)

\* the mutant of CallGetFallbackSections whose lookup takes the first row
\* out of the store
CallGetFallbackSectionsTakingRows ==
  /\ pc = "ready"
  /\ LET r == _get_fallback_sections(df) IN
       IF r.ok
       THEN /\ relevant_sections' = r.sections
            /\ pc' = "done"
            /\ raised' = raised
       ELSE /\ relevant_sections' = relevant_sections
            /\ pc' = "raised"
            /\ raised' = "KeyError"
  /\ df' = [ df EXCEPT !.rows = IF @ = << >> THEN @ ELSE Tail(@) ]
  /\ UNCHANGED << web, corpus, has_key, init_error, scenario, gate, model_i,
                  sel_log, op_log, sel_reply, op_reply, result, caught, output >>

\* a direct call of _get_fallback_sections(): the sections, or the KeyError
\* of line 160
CallGetFallbackSections ==
  /\ pc = "ready"
  /\ LET r == _get_fallback_sections(df) IN
       IF r.ok
       THEN /\ relevant_sections' = r.sections
            /\ pc' = "done"
            /\ raised' = raised
       ELSE /\ relevant_sections' = relevant_sections
            /\ pc' = "raised"
            /\ raised' = "KeyError"
  /\ UNCHANGED << web, corpus, has_key, df, init_error, scenario, gate, model_i,
                  sel_log, op_log, sel_reply, op_reply, result, caught, output >>

\* the caller takes the result (or the exception) of the call and the text
\* format_advice made of it
ReturnWithOutput ==
  /\ pc \in { "done", "raised" }
  /\ pc' = "ready"
  /\ scenario' = << >>
  /\ gate' = NoGate
  /\ model_i' = 0
  /\ sel_log' = << >>
  /\ op_log' = << >>
  /\ sel_reply' = NoSelReply
  /\ relevant_sections' = << >>
  /\ op_reply' = NoOpReply
  /\ result' = NoAdvice
  /\ raised' = "none"
  /\ caught' = NoError
  /\ output' = NoOutput
  /\ UNCHANGED << web, corpus, has_key, df, init_error >>

\* the corpora of the advisor in use: three sections out of order, one
\* identifier twice; with all three columns, or without the section_title
\* column
StoreCorpora ==
  { c \in CallCorpora :
      c.parsable /\ c.cells \in { << S15, S11, S30 >>, << S11, S11 >> } }

InitStore == \E c \in StoreCorpora : Fresh(c, TRUE)
NextStore ==
  \/ Construct
  \/ CallIsLegalScenario
  \/ CallGetFallbackSections
  \/ Generate
  \/ SelectCall
  \/ SearchReturns
  \/ OpinionCall
  \/ CallFormatAdvice
  \/ ReturnWithOutput
SpecStore == InitStore /\ [][NextStore]_vars

------------------------------------------------------------------------------
(* Specification of the web handler: init_advisor() at import, then the     *)
(* requests /analyze, /health and /reinit served by concurrent threads, one *)
(* global read or write at a time                                           *)

\* the variables of a single advisor call, which the handler's own steps
\* leave alone
call == << pc, corpus, has_key, df, init_error, scenario, gate, model_i,
           sel_log, op_log, sel_reply, relevant_sections, op_reply, result,
           raised, caught, output >>

\* the files pdpa_sections.csv may be, and the key may be set or not, at the
\* time of an initialization
WebCorpora ==
  { [ parsable |-> FALSE, cols |-> {}, cells |-> << >> ],
    GateCorpus,
    [ parsable |-> TRUE, cols |-> Columns, cells |-> << S30 >> ] }

\* PDPALegalAdvisor("pdpa_sections.csv") of line 20: the instance, or the
\* exception of __init__
NewAdvisor(c, key) ==
  LET l == _load_pdpa_data(c) IN
  IF l.ok /\ _setup_openai_client(key)
  THEN [ ok |-> TRUE, instance |-> Instance(l.df) ]
  ELSE [ ok |-> FALSE, instance |-> NoAdvisor ]

\* the mutant of init_advisor_try in which a failed initialization clears the
\* global advisor
init_advisor_try_clearing(made, current) ==
  IF made.ok
  THEN [ advisor |-> made.instance, next |-> "set_ready" ]
  ELSE [ advisor |-> NoAdvisor, next |-> "set_unready" ]

\* init_advisor, line 20: the assignment to the global advisor when the
\* constructor returns, and the line that runs next (21, or 25 in the handler)
init_advisor_try(made, current) ==
  IF made.ok
  THEN [ advisor |-> made.instance, next |-> "set_ready" ]
  ELSE [ advisor |-> current, next |-> "set_unready" ]

\* init_advisor, lines 21 and 25: the value assigned to advisor_ready
init_advisor_flag(line) == line = "set_ready"

\* line 28, first half: the constructor and the assignment of line 20
StartupConstruct ==
  /\ startup = "construct"
  /\ \E c \in WebCorpora, key \in BOOLEAN :
       LET step == init_advisor_try(NewAdvisor(c, key), advisor) IN
       /\ advisor' = step.advisor
       /\ startup' = step.next
  /\ UNCHANGED << call, advisor_ready, requests >>

\* line 28, second half: line 21 or line 25; the application then serves
StartupSetReady ==
  /\ startup \in { "set_ready", "set_unready" }
  /\ advisor_ready' = init_advisor_flag(startup)
  /\ startup' = "serving"
  /\ UNCHANGED << call, advisor, requests >>

\* a request arrives on a free thread
Arrive(i) ==
  /\ startup = "serving"
  /\ requests[i].pc = "idle"
  /\ \E route \in { "analyze", "health", "reinit" } :
       requests' = [ requests EXCEPT
                       ![i] = [ IdleRequest EXCEPT !.route = route,
                                                   !.pc = FirstLine(route) ] ]
  /\ UNCHANGED << call, advisor, advisor_ready, startup >>

\* analyze, lines 38-39: `if not advisor_ready`, answered with status 500
AnalyzeCheckReady(i) ==
  /\ requests[i].pc = "check_ready"
  /\ requests' = [ requests EXCEPT
                     ![i] = [ @ EXCEPT !.observed = TRUE,
                                       !.seen_ready = advisor_ready,
                                       !.status = IF advisor_ready THEN 0 ELSE 500,
                                       !.pc = IF advisor_ready THEN "get_json"
                                              ELSE "responded" ] ]
  /\ UNCHANGED << call, advisor, advisor_ready, startup >>

\* analyze, lines 42-46 and 64-65: a body that is not JSON raises and is
\* answered with 500, an empty scenario is answered with 400
AnalyzeGetJson(i) ==
  /\ requests[i].pc = "get_json"
  /\ \E body \in { "not_json", "no_scenario", "scenario" } :
       requests' = [ requests EXCEPT
                       ![i] = [ @ EXCEPT !.status = CASE body = "not_json"    -> 500
                                                      [] body = "no_scenario" -> 400
                                                      [] OTHER                -> 0,
                                         !.pc = IF body = "scenario" THEN "call"
                                                ELSE "responded" ] ]
  /\ UNCHANGED << call, advisor, advisor_ready, startup >>

\* analyze, lines 49-65: advisor.generate_legal_advice(scenario) on the global
\* advisor as it is now; the advice is answered with 200, an exception (of
\* the call, or the AttributeError of None) with 500
AnalyzeCall(i) ==
  /\ requests[i].pc = "call"
  /\ \E returns \in BOOLEAN :
       requests' = [ requests EXCEPT
                       ![i] = [ @ EXCEPT !.called = IF advisor.set THEN "set"
                                                    ELSE "unset",
                                         !.status = IF advisor.set /\ returns
                                                    THEN 200 ELSE 500,
                                         !.pc = "responded" ] ]
  /\ UNCHANGED << call, advisor, advisor_ready, startup >>

\* health, line 71: the read of advisor_ready for 'status'
HealthReadStatus(i) ==
  /\ requests[i].pc = "read_status"
  /\ requests' = [ requests EXCEPT
                     ![i] = [ @ EXCEPT !.observed = TRUE,
                                       !.seen_ready = advisor_ready,
                                       !.pc = "read_ready" ] ]
  /\ UNCHANGED << call, advisor, advisor_ready, startup >>

\* health, line 72, and reinit, line 84: the read of advisor_ready for the
\* member 'advisor_ready' of the body, answered with 200
RespondReady(i) ==
  /\ requests[i].pc = "read_ready"
  /\ requests' = [ requests EXCEPT
                     ![i] = [ @ EXCEPT !.body_ready = advisor_ready,
                                       !.status = 200,
                                       !.pc = "responded" ] ]
  /\ UNCHANGED << call, advisor, advisor_ready, startup >>

\* reinit, line 80: init_advisor(), the constructor and the assignment of
\* line 20
ReinitConstruct(i) ==
  /\ requests[i].pc = "construct"
  /\ \E c \in WebCorpora, key \in BOOLEAN :
       LET step == init_advisor_try(NewAdvisor(c, key), advisor) IN
       /\ advisor' = step.advisor
       /\ requests' = [ requests EXCEPT ![i] = [ @ EXCEPT !.pc = step.next ] ]
  /\ UNCHANGED << call, advisor_ready, startup >>

\* reinit, line 80: init_advisor(), line 21 or line 25
ReinitSetReady(i) ==
  /\ requests[i].pc \in { "set_ready", "set_unready" }
  /\ advisor_ready' = init_advisor_flag(requests[i].pc)
  /\ requests' = [ requests EXCEPT ![i] = [ @ EXCEPT !.pc = "read_message" ] ]
  /\ UNCHANGED << call, advisor, startup >>

\* reinit, line 83: the read of advisor_ready for 'message'
ReinitReadMessage(i) ==
  /\ requests[i].pc = "read_message"
  /\ requests' = [ requests EXCEPT
                     ![i] = [ @ EXCEPT !.observed = TRUE,
                                       !.seen_ready = advisor_ready,
                                       !.pc = "read_ready" ] ]
  /\ UNCHANGED << call, advisor, advisor_ready, startup >>

\* the response is sent and the thread is free again
Leave(i) ==
  /\ requests[i].pc = "responded"
  /\ requests' = [ requests EXCEPT ![i] = IdleRequest ]
  /\ UNCHANGED << call, advisor, advisor_ready, startup >>

\* the variables of a single advisor call are those of an advisor not yet
\* constructed, and stay so
InitWeb == Fresh(GateCorpus, TRUE)
NextWeb ==
  \/ StartupConstruct
  \/ StartupSetReady
  \/ \E i \in Requests :
       \/ Arrive(i)
       \/ AnalyzeCheckReady(i)
       \/ AnalyzeGetJson(i)
       \/ AnalyzeCall(i)
       \/ HealthReadStatus(i)
       \/ RespondReady(i)
       \/ ReinitConstruct(i)
       \/ ReinitSetReady(i)
       \/ ReinitReadMessage(i)
       \/ Leave(i)
SpecWeb == InitWeb /\ [][NextWeb]_vars

------------------------------------------------------------------------------
(* Claims about generate_legal_advice *)

InCall == pc \in { "select", "searched", "opinion", "done", "raised" }

\* C1: generate_legal_advice never raises to its caller, whatever the scenario,
\* the store that passed loading and the behaviour of the hosted model.
C1_GenerateNeverRaises == pc # "raised" /\ raised = "none"

\* C2: whenever the gatekeeper rejects the scenario, the call makes no model
\* call, neither for the selection nor for the opinion, and returns an advice
\* with risk level "N/A", no relevant sections and the gatekeeper's reason as
\* its analysis.
C2_RejectedShortCircuit ==
  InCall =>
    LET g == is_legal_scenario(scenario) IN
    ~ g.is_legal =>
      /\ pc = "done"
      /\ sel_log = << >> /\ op_log = << >>
      /\ result.set
      /\ result.risk_level = RiskNA
      /\ result.relevant_sections = << >>
      /\ result.analysis = g.reason

C2_Witness ==
  /\ pc = "done"
  /\ scenario = JoinWords(<< W_chocolate, W_data, W_privacy >>)
  /\ result.set
  /\ result.analysis = ReasonNonLegalContent
  /\ sel_log = << >> /\ op_log = << >>

\* C3: every advice returned has at least one recommendation, whatever the
\* reply holds as its recommendations member.
C3_RecommendationsNonEmpty ==
  (pc = "done" /\ result.set) => result.recommendations # << >>

\* a member that is absent, null, empty or blank, or the literal NaN/undefined
\* (as a string or as a bare token)
IsMissingOrSentinel(v) ==
  \/ v.t \in { "absent", "null", "NaN", "undefined" }
  \/ v.t = "str" /\ (strip(v.s) = << >> \/ v.s \in { sNaN, sUndefined })

ResultText(k) ==
  CASE k = "issue"      -> result.issue
    [] k = "rule"       -> result.rule
    [] k = "analysis"   -> result.analysis
    [] k = "conclusion" -> result.conclusion
    [] k = "risk_level" -> result.risk_level

\* the opinion phase ended with a response whose object was decoded
ParsedObject ==
  /\ pc = "done" /\ result.set
  /\ op_log # << >> /\ op_log[Len(op_log)].outcome = "success"
  /\ op_reply.kind = "object"

\* C4: in every advice returned the five text fields are non-empty strings,
\* and a member of the reply that is absent, null, empty or blank, or the
\* literal "NaN" or "undefined", becomes "Information not available".
C4_TextFieldsFilled ==
  /\ (pc = "done" /\ result.set) =>
        \A k \in TextKeysOfAdvice : ResultText(k) # << >>
  /\ ParsedObject =>
        \A k \in TextKeysOfAdvice :
           IsMissingOrSentinel(op_reply.obj[k]) => ResultText(k) = InfoNotAvailable

RiskLevels == { RiskLow, RiskMedium, RiskHigh, RiskNA, RiskUnknown }

\* C5: the risk level of every advice returned is one of Low, Medium, High,
\* N/A, Unknown.
C5_RiskLevelEnumerated ==
  (pc = "done" /\ result.set) => result.risk_level \in RiskLevels

\* the calls of one phase follow the fixed order, and only a not-found error
\* is followed by another call
InOrderStoppingAtFirstResult(log) ==
  /\ Len(log) <= Len(models_to_try)
  /\ \A i \in 1..Len(log) :
       /\ log[i].model = models_to_try[i]
       /\ i < Len(log) => log[i].outcome = "not_found"

\* the phase is over: it ended on a response, on another error, or on the
\* last candidate
PhaseEnded(log) ==
  /\ log # << >>
  /\ \/ log[Len(log)].outcome \in { "success", "other_error" }
     \/ Len(log) = Len(models_to_try)

\* C6: in both phases the candidates are tried in the order gpt-4o-mini,
\* gpt-3.5-turbo, gpt-4; a not-found error advances to the next candidate,
\* any other error and any success end the iteration with no later candidate
\* tried.
C6_CandidateOrder ==
  /\ InOrderStoppingAtFirstResult(sel_log)
  /\ InOrderStoppingAtFirstResult(op_log)
  /\ pc = "select" =>
        /\ Len(sel_log) = model_i - 1
        /\ sel_log # << >> => sel_log[Len(sel_log)].outcome = "not_found"
  /\ pc = "opinion" =>
        /\ Len(op_log) = model_i - 1
        /\ op_log # << >> => op_log[Len(op_log)].outcome = "not_found"
  /\ (pc \in { "searched", "opinion", "raised" } \/ (pc = "done" /\ gate.is_legal)) =>
        PhaseEnded(sel_log)
  /\ (pc = "done" /\ gate.is_legal) => PhaseEnded(op_log)

C6_Witness ==
  /\ pc = "done"
  /\ Len(sel_log) = 3 /\ sel_log[2].outcome = "not_found"
  /\ sel_log[3].outcome = "success"
  /\ Len(op_log) = 2 /\ op_log[1].outcome = "not_found"
  /\ op_log[2].outcome = "other_error"

\* the selection ended without a response: every candidate not found, or
\* another error
SelectionFailed ==
  /\ pc \in { "searched", "opinion", "done", "raised" }
  /\ sel_log # << >>
  /\ sel_log[Len(sel_log)].outcome \in { "not_found", "other_error" }

\* the sections of the identifiers of the fixed list that the store holds, in
\* the order of the list
FixedListSections(store) ==
  LET held == { i \in 1..Len(common_sections) :
                  \E r \in 1..Len(store.rows) :
                     store.rows[r].section_number = common_sections[i] }
      ids  == Pick(common_sections, held)
  IN [ k \in 1..Len(ids) |->
         LET r == CHOOSE r \in 1..Len(store.rows) :
                    /\ store.rows[r].section_number = ids[k]
                    /\ \A q \in 1..(r - 1) : store.rows[q].section_number # ids[k]
         IN [ section_number |-> ids[k],
              title          |-> store.rows[r].section_title,
              text           |-> Excerpt(store.rows[r].text) ] ]

\* C7: when every candidate fails with not-found, or one fails with another
\* error, search_relevant_sections returns exactly the sections of the
\* identifiers 11,12,13,14,15,18,19,20,21,22 that the store holds, in that
\* order, with no further model call.
C7_FallbackSet ==
  SelectionFailed =>
    /\ pc # "raised"
    /\ relevant_sections = FixedListSections(df)
    /\ InOrderStoppingAtFirstResult(sel_log)

\* the same on the stores that have all three columns
FallbackSetOnFullStore ==
  (SelectionFailed /\ Columns \subseteq df.cols) =>
    /\ pc # "raised"
    /\ relevant_sections = FixedListSections(df)

------------------------------------------------------------------------------
(* Claims about the store *)

\* the rows of corpus c whose identifier is non-null and all decimal digits
DigitRows(c) ==
  { i \in 1..Len(c.cells) : c.cells[i] # EmptyCell /\ MatchesDigits(c.cells[i]) }

\* C8: after loading, the store holds as many sections as the corpus has rows
\* whose identifier is non-null and consists only of decimal digits.
C8_StoreCountIsDigitRows ==
  pc = "ready" => Len(df.rows) = Cardinality(DigitRows(corpus))

\* C9: construction fails with the data-load error whenever the corpus cannot
\* be parsed or lacks one of the columns section_number, section_title, text.
C9_MissingColumnFailsLoad ==
  (pc # "new" /\ (~ corpus.parsable \/ ~ (Columns \subseteq corpus.cols)))
     => (pc = "init_failed" /\ init_error = "Error loading PDPA data")

------------------------------------------------------------------------------
(* Claims about the gatekeeper *)

\* h: the members of the keyword set that occur in the case-folded scenario
KeywordSetHits(s) ==
  Cardinality({ k \in Range(legal_keywords) : IsSubstring(k, lower(s)) })

UnrelatedOccurs(s) ==
  \E t \in Range(non_legal_indicators) : IsSubstring(t, lower(s))

\* C10: a scenario is accepted exactly when h >= 2 and (no unrelated term
\* occurs or h >= 3); h < 2 is rejected with the first reason, and h = 2 with
\* an unrelated term is rejected with the second reason.
C10_GateAcceptsIffSetHits ==
  gate # NoGate =>
    LET h == KeywordSetHits(scenario) IN
    /\ gate.is_legal <=> (h >= 2 /\ (~ UnrelatedOccurs(scenario) \/ h >= 3))
    /\ h < 2 => gate.reason = ReasonNoLegalContent
    /\ (h = 2 /\ UnrelatedOccurs(scenario)) => gate.reason = ReasonNonLegalContent

------------------------------------------------------------------------------
(* Claims about the short circuit and the reply processing *)

\* the advice a rejected scenario s gets, written as a function of s alone
PlaceholderOpinion(s) ==
  [ set               |-> TRUE,
    issue             |-> << "Input validation failed" >>,
    rule              |-> << "The PDPA Legal Advisor is designed for data protection and privacy law scenarios only" >>,
    analysis          |-> is_legal_scenario(s).reason,
    conclusion        |-> << "Please provide a scenario involving personal data, privacy, or legal compliance issues." >>,
    relevant_sections |-> << >>,
    risk_level        |-> << "N", "/", "A" >>,
    recommendations   |-> << << "Provide a legal scenario involving data protection" >>,
                             << "Include details about personal data handling" >>,
                             << "Describe privacy or compliance concerns" >> >> ]

\* C11: the short circuit is deterministic: the advice returned for a rejected
\* scenario is in every field a function of the scenario alone, so two calls
\* with the same rejected scenario return equal advices whatever the store
\* holds, whatever the hosted model does and whatever calls came before.
C11_RejectionDeterministic ==
  (pc = "done" /\ ~ gate.is_legal) => result = PlaceholderOpinion(scenario)

\* a rejected call on a store that holds sections of the fallback list
C11_Witness ==
  /\ pc = "done"
  /\ scenario = W_hello
  /\ result.analysis = ReasonNoLegalContent
  /\ \E i \in 1..Len(df.rows) : df.rows[i].section_number = S11
  /\ Columns \subseteq df.cols

\* the reply is a JSON object with the six members, the five text members
\* strings and the recommendations a list of strings
SixFieldObject ==
  /\ ParsedObject
  /\ \A k \in TextKeysOfAdvice : op_reply.obj[k].t = "str"
  /\ op_reply.obj["recommendations"].t = "list"
  /\ \A i \in 1..Len(op_reply.obj["recommendations"].items) :
        op_reply.obj["recommendations"].items[i].t = "str"

\* the strings of the list items, and those of them that are not empty
ItemStrings(items) == [ i \in 1..Len(items) |-> items[i].s ]
NonEmptyStrings(strs) == Pick(strs, { i \in 1..Len(strs) : strs[i] # << >> })

IsPlainString(x) ==
  /\ x # << >>
  /\ ~ IsSpace(x[1]) /\ ~ IsSpace(x[Len(x)])
  /\ ~ IsSubstring(sNaN, x) /\ ~ IsSubstring(sUndefined, x)

IsBareToken(v) == v.t \in { "NaN", "undefined" }

\* the opinion phase ended with a response that is a JSON object, one member
\* of it a bare token
BareTokenReply ==
  /\ pc = "done" /\ result.set
  /\ op_log # << >> /\ op_log[Len(op_log)].outcome = "success"
  /\ op_reply.kind = "object"
  /\ \E k \in AdviceKeys : IsBareToken(op_reply.obj[k])

\* the advice was built from the decoded object: no exception was caught and
\* the issue is not the one of the heuristic reconstruction
StructuredPath ==
  /\ caught = NoError
  /\ op_reply.obj["issue"].t = "str" /\ IsPlainString(op_reply.obj["issue"].s)
       => result.issue = op_reply.obj["issue"].s

\* the text members that are plain strings keep their values
PlainMembersKept ==
  \A k \in TextKeysOfAdvice :
     (op_reply.obj[k].t = "str" /\ IsPlainString(op_reply.obj[k].s))
        => ResultText(k) = op_reply.obj[k].s

\* C13: a reply whose object holds the bare token NaN or undefined as the
\* value of a member is read as if the value were null: the advice is built
\* from the decoded object, the member resolves to its placeholder
\* ("Information not available"; for the recommendations the default entry),
\* and the other members keep their values.
C13_BareTokenAsNull ==
  BareTokenReply =>
    /\ StructuredPath
    /\ PlainMembersKept
    /\ \A k \in TextKeysOfAdvice :
         IsBareToken(op_reply.obj[k]) => ResultText(k) = InfoNotAvailable
    /\ IsBareToken(op_reply.obj["recommendations"])
         => result.recommendations \in { << InfoNotAvailable >>, << ConsultCounsel >> }

\* the same for the five text members
BareTokenAsNullInTextMembers ==
  (BareTokenReply /\ ~ IsBareToken(op_reply.obj["recommendations"])) =>
    /\ StructuredPath
    /\ PlainMembersKept
    /\ \A k \in TextKeysOfAdvice :
         IsBareToken(op_reply.obj[k]) => ResultText(k) = InfoNotAvailable

------------------------------------------------------------------------------
(* Claims about the formatter *)

\* the text fields and the recommendations of the advice are not empty
WellFormed(advice) ==
  /\ advice.set
  /\ advice.issue # << >> /\ advice.rule # << >> /\ advice.analysis # << >>
  /\ advice.conclusion # << >> /\ advice.risk_level # << >>
  /\ advice.recommendations # << >>

\* the labels of the text, in the order they are written
LabelsOf(text) ==
  LET at == { i \in 1..Len(text) : text[i].kind = "label" } IN
  [ k \in 1..Cardinality(at) |-> text[Nth(at, k)].label ]

\* the numbered recommendations of the text, in the order they are written
NumberedOf(text) ==
  LET at == { i \in 1..Len(text) : text[i].kind = "recommendation" } IN
  [ k \in 1..Cardinality(at) |-> << text[Nth(at, k)].n, text[Nth(at, k)].body >> ]

Formatted == pc = "done" /\ output # NoOutput

\* C14: for every well-formed advice format_advice returns a text that holds
\* the labels ISSUE, RULE, ANALYSIS, CONCLUSION, RISK LEVEL, RELEVANT SECTIONS
\* and RECOMMENDATIONS and lists the recommendations in their order, numbered
\* 1..n; the call leaves the advice as it was.
C14_FormatLabelsAndNumbering ==
  /\ [] ( (Formatted /\ WellFormed(result)) =>
            /\ LabelsOf(output) =
                 << "PDPA LEGAL ADVICE REPORT", "ISSUE:", "RULE:", "ANALYSIS:",
                    "CONCLUSION:", "RISK LEVEL:", "RELEVANT SECTIONS:",
                    "RECOMMENDATIONS:" >>
            /\ NumberedOf(output) =
                 [ i \in 1..Len(result.recommendations) |->
                     << i, result.recommendations[i] >> ] )
  /\ [][ output' # output => (result' = result /\ pc' = "done") ]_vars

C14_Witness ==
  /\ Formatted
  /\ WellFormed(result)
  /\ result.recommendations = << sCritical, sOk, sOk >>
  /\ Len(result.relevant_sections) = 2

------------------------------------------------------------------------------
(* Claims about the relevance selector *)

\* search_relevant_sections is over, with the sections it returns or with an
\* exception, and the last candidate answered
SelectionAnswered ==
  /\ pc \in { "searched", "raised" }
  /\ sel_log # << >>
  /\ sel_log[Len(sel_log)].outcome = "success"

\* the sections of those of the first top_k identifiers of ids that the store
\* holds (identifiers are strings; the first row of an identifier counts), in
\* the order of ids
SectionsOfIds(store, ids) ==
  LET first == SubSeq(ids, 1, Min(top_k, Len(ids)))
      held  == { i \in 1..Len(first) :
                   /\ first[i].t = "str"
                   /\ \E r \in 1..Len(store.rows) :
                        store.rows[r].section_number = first[i].v }
      kept  == Pick(first, held)
  IN [ k \in 1..Len(kept) |->
         LET r == CHOOSE r \in 1..Len(store.rows) :
                    /\ store.rows[r].section_number = kept[k].v
                    /\ \A q \in 1..(r - 1) : store.rows[q].section_number # kept[k].v
         IN [ section_number |-> kept[k].v,
              title          |-> store.rows[r].section_title,
              text           |-> Excerpt(store.rows[r].text) ] ]

\* C15: when the reply yields a list of identifiers, search_relevant_sections
\* returns the sections of exactly those of the first top_k identifiers that
\* the store holds, in the order of the list; an identifier the store does
\* not hold is skipped and nothing is raised; never more than top_k sections.
C15_HydrationOfList ==
  (SelectionAnswered /\ sel_reply.kind \in { "array", "integers" }) =>
    /\ pc = "searched"
    /\ relevant_sections = SectionsOfIds(df, sel_reply.nums)
    /\ Len(relevant_sections) <= top_k

\* the same on the stores that have all three columns
HydrationOfListOnFullStore ==
  (SelectionAnswered /\ sel_reply.kind \in { "array", "integers" }
     /\ Columns \subseteq df.cols) =>
    /\ pc = "searched"
    /\ relevant_sections = SectionsOfIds(df, sel_reply.nums)
    /\ Len(relevant_sections) <= top_k

\* C16: whenever the reply does not parse as a JSON array, a reply with
\* bracketed text that is no JSON included, search_relevant_sections takes
\* the identifiers from the integer tokens of the text, in their order, and
\* does not return the fixed fallback set.
C16_IntegerTokens ==
  (SelectionAnswered /\ sel_reply.kind \in { "integers", "malformed_array" }) =>
    /\ pc = "searched"
    /\ relevant_sections = SectionsOfIds(df, sel_reply.nums)

\* the same for the texts without brackets, on the stores with all columns
IntegerTokensOfPlainText ==
  (SelectionAnswered /\ sel_reply.kind = "integers" /\ Columns \subseteq df.cols) =>
    /\ pc = "searched"
    /\ relevant_sections = SectionsOfIds(df, sel_reply.nums)

\* the first k characters of a run-length text are those of another
SamePrefix(a, b, k) == TakeRuns(a.runs, k) = TakeRuns(b.runs, k)

\* section is the excerpt of row: identifier and title as stored, the text as
\* stored when it has at most ExcerptLimit characters, else its first
\* ExcerptLimit characters followed by "..."
IsExcerptOf(section, row) ==
  /\ section.section_number = row.section_number
  /\ section.title = row.section_title
  /\ IF row.text.na \/ RunsLen(row.text.runs) <= ExcerptLimit
     THEN section.text = row.text
     ELSE /\ ~ section.text.na
          /\ RunsLen(section.text.runs) = ExcerptLimit + 3
          /\ SamePrefix(section.text, row.text, ExcerptLimit)
          /\ section.text.runs[Len(section.text.runs)] = TextRun(".", 3)

\* C19: every section excerpt search_relevant_sections returns, from a reply
\* or from the fixed fallback list, carries the stored identifier and title
\* unchanged; its text is the stored text when that has at most 1000
\* characters, else the first 1000 characters followed by "...", so never
\* more than 1003 characters.
C19_ExcerptWithinBudget ==
  pc = "searched" =>
    \A i \in 1..Len(relevant_sections) :
       /\ \E r \in 1..Len(df.rows) : IsExcerptOf(relevant_sections[i], df.rows[r])
       /\ LenStrText(relevant_sections[i].text) <= ExcerptLimit + 3

\* a text of exactly the budget came back whole beside one that was cut
C19_Witness ==
  /\ pc = "searched"
  /\ \E i \in 1..Len(relevant_sections) :
        RunsLen(relevant_sections[i].text.runs) = ExcerptLimit
  /\ \E i \in 1..Len(relevant_sections) :
        RunsLen(relevant_sections[i].text.runs) = ExcerptLimit + 3

------------------------------------------------------------------------------
(* Claims about the opinion phase *)

\* the opinion phase of an accepted scenario failed: the last candidate
\* raised (not found, or another error), or the reply had no content to parse
OpinionFailed ==
  /\ pc = "done" /\ gate.is_legal
  /\ op_log # << >>
  /\ \/ op_log[Len(op_log)].outcome # "success"
     \/ op_reply.kind = "none"

\* C17: when the opinion phase fails after an accepted scenario, the advice
\* returned has risk level "Unknown", an analysis that contains the error
\* description, exactly the two fixed recommendations, and as relevant
\* sections the sections the selection step retrieved.
C17_ErrorAdvice ==
  OpinionFailed =>
    /\ result.set
    /\ caught # NoError
    /\ op_log[Len(op_log)].outcome = "other_error" =>
         (caught \in ModelErrors /\ ~ IsModelNotFound(caught))
    /\ op_log[Len(op_log)].outcome = "not_found" => caught = ErrNoModels
    /\ result.risk_level = << "U", "n", "k", "n", "o", "w", "n" >>
    /\ IsSubstring(caught, result.analysis)
    /\ result.recommendations =
         << << "Consult legal expert" >>, << "Review relevant PDPA sections" >> >>
    /\ result.relevant_sections = relevant_sections

\* every candidate of the opinion phase was not found, after a selection that
\* retrieved sections
C17_Witness ==
  /\ OpinionFailed
  /\ Len(op_log) = 3 /\ op_log[3].outcome = "not_found"
  /\ result.analysis = << "Technical error occurred: " >> \o ErrNoModels
  /\ Len(result.relevant_sections) = 2

\* the opinion phase ended with a reply in which no pattern finds an object
\* that decodes
HeuristicPath ==
  /\ pc = "done" /\ result.set
  /\ op_log # << >> /\ op_log[Len(op_log)].outcome = "success"
  /\ op_reply.kind = "text"

\* High if the text holds "high" in any case, else Low if it holds "low",
\* else Medium
RiskOfText(txt) ==
  IF IsSubstring(sHigh, lower(txt)) THEN << "H", "i", "g", "h" >>
  ELSE IF IsSubstring(sLow, lower(txt)) THEN << "L", "o", "w" >>
  ELSE << "M", "e", "d", "i", "u", "m" >>

\* issue, rule, conclusion and recommendations of the heuristic reconstruction
HeuristicPlaceholders ==
  /\ result.issue = << "Legal issues identified from scenario" >>
  /\ result.rule = << "Relevant PDPA provisions apply" >>
  /\ result.conclusion = << "Further legal review recommended" >>
  /\ result.recommendations =
       << << "Consult with legal counsel" >>, << "Review PDPA compliance" >> >>

\* C18 as stated: on the heuristic path the risk level is High, Low or Medium
\* by the words of the reply text, the analysis is the reply text truncated
\* to 500 characters, and the other fields are the fixed placeholders.
C18_HeuristicTruncated ==
  HeuristicPath =>
    /\ result.risk_level = RiskOfText(op_reply.txt)
    /\ result.analysis = SubSeq(op_reply.txt, 1, Min(AnalysisLimit, Len(op_reply.txt)))
    /\ HeuristicPlaceholders

\* the analysis the heuristic path builds from the reply text: blanks at the
\* ends removed, NaN and undefined replaced by N/A, the first 500 characters
\* followed by "..." when it is longer, the placeholder when nothing is left
AnalysisOfText(txt) ==
  LET t == ReplaceSentinels(strip(txt)) IN
  IF t = << >> THEN << "Information not available" >>
  ELSE IF Len(t) > AnalysisLimit THEN SubSeq(t, 1, AnalysisLimit) \o << ".", ".", "." >>
       ELSE t

\* C18, amended: on the heuristic path the risk level is High, Low or Medium
\* by the words of the reply text, the analysis is the cleaned reply text,
\* cut to its first 500 characters followed by "..." when it is longer and
\* replaced by "Information not available" when it is empty, and the other
\* fields are the fixed placeholders.
C18_HeuristicCleaned ==
  HeuristicPath =>
    /\ result.risk_level = RiskOfText(op_reply.txt)
    /\ result.analysis = AnalysisOfText(op_reply.txt)
    /\ HeuristicPlaceholders

\* a text that holds "low" before "HIGH" was rated High
C18_Witness ==
  /\ HeuristicPath
  /\ op_reply.txt = sLow \o << " ", "H", "I", "G", "H" >>
  /\ result.risk_level = << "H", "i", "g", "h" >>

\* no candidate occurs twice in the log
NoCandidateTwice(log) ==
  \A i, j \in 1..Len(log) : log[i].model = log[j].model => i = j

\* C20: within one call no candidate is attempted more than once per phase:
\* at most three model calls for the selection and at most three for the
\* opinion, each step of a phase being one more call, so that the phase ends;
\* the opinion phase starts from the first candidate whatever the selection
\* phase did.
C20_BoundedCalls ==
  /\ [] ( /\ Len(sel_log) <= 3 /\ Len(op_log) <= 3
          /\ Len(sel_log) + Len(op_log) <= 6
          /\ NoCandidateTwice(sel_log) /\ NoCandidateTwice(op_log)
          /\ pc = "select" => Len(sel_log) < 3
          /\ pc = "opinion" => Len(op_log) < 3
          /\ (pc = "opinion" /\ op_log = << >>) => model_i = 1
          /\ op_log # << >> => op_log[1].model = "gpt-4o-mini" )
  /\ [][ /\ pc = "select" =>
             (Len(sel_log') = Len(sel_log) + 1 /\ pc' \in { "select", "searched", "raised" })
         /\ pc = "opinion" =>
             (Len(op_log') = Len(op_log) + 1 /\ pc' \in { "opinion", "done" }) ]_vars

\* six model calls in one call: the selection answered on its third
\* candidate, and so did the opinion phase
C20_Witness ==
  /\ pc = "done"
  /\ Len(sel_log) = 3 /\ sel_log[3].outcome = "success"
  /\ Len(op_log) = 3 /\ op_log[3].outcome = "success"


------------------------------------------------------------------------------
(* Claims about the store as a whole *)

\* C22: section identifiers are unique within the loaded store: whatever the
\* corpus, two rows carrying the same numeric identifier included, no two
\* sections of the store share an identifier once the advisor is constructed.
C22_IdentifiersUnique ==
  pc = "ready" =>
    \A i, j \in 1..Len(df.rows) :
      i # j => df.rows[i].section_number # df.rows[j].section_number


------------------------------------------------------------------------------
(* Claims about the web handler *)

\* /analyze saw advisor_ready = false at line 38
SawNotReady(r) == r.route = "analyze" /\ r.observed /\ ~ r.seen_ready

\* the step in which request i of /health sends its response
HealthResponds(i) ==
  /\ requests[i].route = "health"
  /\ requests[i].pc = "read_ready"
  /\ requests'[i].pc = "responded"

\* C23: whatever the interleaving of the startup initialization and of the
\* /reinit, /analyze and /health requests, with initializations that succeed
\* or fail: advisor_ready = true implies that an advisor instance is set;
\* /analyze never calls generate_legal_advice on an unset advisor, and a
\* request that saw advisor_ready = false is answered with status 500 without
\* calling it; /health reports the value advisor_ready has when it answers.
C23_ReadyImpliesAdvisor ==
  /\ [] /\ advisor_ready => advisor.set
        /\ \A i \in Requests :
             /\ requests[i].called # "unset"
             /\ SawNotReady(requests[i]) =>
                  /\ requests[i].pc = "responded"
                  /\ requests[i].status = 500
                  /\ requests[i].called = "no"
  /\ [][ \A i \in Requests :
           HealthResponds(i) =>
             /\ requests'[i].body_ready = advisor_ready
             /\ requests'[i].status = 200 ]_vars

\* /analyze has called generate_legal_advice on the instance although an
\* initialization failed after its check of line 38, and /health, served
\* meanwhile, has reported advisor_ready = false
C23_Witness ==
  \E i, j \in Requests :
    /\ requests[i].route = "analyze"
    /\ requests[i].pc = "responded"
    /\ requests[i].seen_ready
    /\ requests[i].called = "set"
    /\ ~ advisor_ready
    /\ advisor.set
    /\ requests[j].route = "health"
    /\ requests[j].pc = "responded"
    /\ ~ requests[j].body_ready


------------------------------------------------------------------------------
(* Claims about the store of an advisor in use *)

==============================================================================
